---- MODULE Spec2Model ----
(***************************************************************************)
(* PKP (Pyrolysis Kinetic Preprocessor): the driver PKPRunner of           *)
(* pkp/__init__.py.  PKPRunner.run walks the detailed models, runs every   *)
(* configured operating condition of each active model (_run_model,        *)
(* _run_single) and calibrates every configured fit against the runs       *)
(* (_fit_model, _evolution, _plot_yieldfit).                               *)
(*                                                                         *)
(* Python dictionaries are functions with a set of strings as domain.  A   *)
(* raised exception that nothing catches ends the call of run: pc becomes  *)
(* "raised" and error holds the exception object.                          *)
(***************************************************************************)
EXTENDS Naturals, Integers, Sequences, FiniteSets, Bags, TLC

VARIABLES
    settings,               \* self.CPD, self.Polimi, self.BioPolimi
    operating_conditions,   \* self.operating_conditions
    pc,                     \* position in PKPRunner.run
    mi,                     \* index in models of the model being handled
    n,                      \* loop variable of _run_model
    results,                \* _run_model's results of the current model
    run_results,            \* run's run_results
    fit_results,            \* run's fit_results
    pending,                \* fits of the current model not yet iterated
    model_fits,             \* _fit_model's local fit_results
    calls,                  \* detailed-model invocations, in order
    evo_calls,              \* <<model, fit>> of every _evolution call, in order
    evolved,                \* <<model, fit>> of every ga.evolve entered
    ga,                     \* what the last _evolution call did with its GA
    failed,                 \* <<model, n>> of every failed simulation
    error                   \* the exception that left run, if any

vars == <<settings, operating_conditions, pc, mi, n, results, run_results,
          fit_results, pending, model_fits, calls, evo_calls, evolved, ga,
          failed, error>>

---------------------------------------------------------------------------
(* Bounds of the model *)

MaxRuns == 2

MaxFits == 2

NPoints == 2

---------------------------------------------------------------------------
(* Dictionaries *)

EmptyDict == << >>

Put(d, k, v) == [q \in (DOMAIN d) \cup {k} |-> IF q = k THEN v ELSE d[q]]

---------------------------------------------------------------------------
(* Configuration: ReadConfiguration.__init__ *)

models == <<"CPD", "Polimi", "BioPolimi">>

ModelNames == {models[i] : i \in DOMAIN models}

ultimate_analysis == [C |-> 80, H |-> 5, O |-> 12, N |-> 2, S |-> 1]

proximate_analysis == [FC |-> 45, VM |-> 50, Ash |-> 5, Moist |-> 0]

\* 'run{}'.format(n), for the run numbers of one digit
RunName(k) ==
    <<"run0", "run1", "run2", "run3", "run4",
      "run5", "run6", "run7", "run8", "run9">>[k + 1]

\* '{}-Run{}'.format(model, n)
InstanceName(model, k) == model \o "-Run" \o ToString(k)

FitNames == {"fit0", "fit1"}

Methods == {"evolve", "brute"}

\* parameters_min / parameters_max pairs: a well-formed one, and min=5, max=1
BoundsChoices == { << <<1>>, <<2>> >>, << <<5>>, <<1>> >> }

\* One fit section of the configuration file
FitSettings(fitname, method, bounds) ==
    [model           |-> IF fitname = "fit0" THEN "SFOR" ELSE "C2SM",
     species         |-> IF fitname = "fit0" THEN "tar" ELSE "volatiles",
     parameters_min  |-> bounds[1],
     parameters_max  |-> bounds[2],
     parameters_init |-> bounds[1],
     method          |-> method,
     npop            |-> 4,
     ngen            |-> 2]

FitSections(fitname) ==
    {FitSettings(fitname, me, b) : me \in Methods, b \in BoundsChoices}

\* Every 'fit' entry of a model section: a dictionary of fit sections
FitDicts ==
    UNION {[S -> UNION {FitSections(f) : f \in S}] : S \in SUBSET FitNames}

WellKeyed(d) == \A f \in DOMAIN d : d[f] \in FitSections(f)

ModelSections ==
    {[active |-> a, fit |-> d] :
        a \in BOOLEAN, d \in {x \in FitDicts : WellKeyed(x)}}

TotalFits(s) ==
    Cardinality({<<m, f>> \in ModelNames \X FitNames : f \in DOMAIN s[m].fit})

Configurations ==
    {s \in [ModelNames -> ModelSections] : TotalFits(s) <= MaxFits}

\* yml_input['operating_conditions'] with 'runs' = r
OperatingConditions(r) ==
    [k \in {"runs", "pressure"} \cup {RunName(j) : j \in 0 .. MaxRuns - 1} |->
        IF k = "runs" THEN r
        ELSE IF k = "pressure" THEN 1
        ELSE CHOOSE h \in 1 .. MaxRuns : RunName(h - 1) = k]

---------------------------------------------------------------------------
(* The detailed models (pkp.cpd, pkp.polimi, pkp.biopolimi) *)

Channels == {"tar", "volatiles", "T"}

ModelOffset(model) == CHOOSE i \in DOMAIN models : models[i] = model

\* run.run(): a time-indexed table of yield channels
DetailedModelRun(model, ua, pa, pressure, oc) ==
    [index |-> [i \in 1 .. NPoints |-> (i - 1) * oc],
     cols  |-> [c \in Channels |->
                 [i \in 1 .. NPoints |->
                    IF c = "tar" THEN i * oc + ModelOffset(model)
                    ELSE IF c = "volatiles" THEN 2 * i * oc + pressure
                    ELSE 300 + 100 * i * oc]]]

DetailedModelExceptions == {"RuntimeError", "IOError"}

NoRun == "none"

NoError == [type |-> "none", msg |-> "", run |-> NoRun]

\* The exception object a failing run.run() raises
DetailedModelFailure(type) ==
    [type |-> type, msg |-> "simulation failed", run |-> NoRun]

---------------------------------------------------------------------------
(* PKPRunner._run_single and PKPRunner._run_model *)

Model == models[mi]

\* Mutant: the 'active' flag is not consulted
IsActiveAlways(model) == TRUE

IsActive(model) == settings[model].active

\* Mutant: every run gets the operating conditions of run0
RunOperatingConditionsFirst(k) == operating_conditions[RunName(0)]

\* self.operating_conditions['run{}'.format(n)]
RunOperatingConditions(k) == operating_conditions[RunName(k)]

\* The detailed-model object _run_single builds and runs
RunCall(model, k) ==
    [model               |-> model,
     n                   |-> k,
     name                |-> InstanceName(model, k),
     ultimate_analysis   |-> ultimate_analysis,
     proximate_analysis  |-> proximate_analysis,
     pressure            |-> operating_conditions["pressure"],
     operating_conditions |-> RunOperatingConditions(k)]

\* res = run.run() of the object RunCall describes
RunSingle(model, k) ==
    LET c == RunCall(model, k)
    IN  DetailedModelRun(c.model, c.ultimate_analysis, c.proximate_analysis,
                         c.pressure, c.operating_conditions)

\* results['run{}'.format(n)] = res
StoreRun(res_dict, k, res) == Put(res_dict, RunName(k), res)

\* Mutant: the failing run is skipped and the loop goes on
OnRunFailureSkipped(exc, k) ==
    [pc |-> "run_model", error |-> NoError, n |-> k + 1]

\* Mutant: the exception is caught and a generic one raised in its place
OnRunFailureWrapped(exc, k) ==
    [pc |-> "raised",
     error |-> [type |-> "Exception", msg |-> "run failed", run |-> RunName(k)],
     n |-> k]

\* No try/except around run.run(), _run_single or _run_model: the exception
\* of the detailed model leaves run() as it is.
OnRunFailure(exc, k) == [pc |-> "raised", error |-> exc, n |-> k]

---------------------------------------------------------------------------
(* The calibrator (pkp.evolution) and the empirical models                 *)
(* (pkp.empirical_model)                                                   *)

\* ga.empirical_model.parameters_names
ParametersNames(emp) == <<"k">>

\* ga.parameters_range(parameters_min, parameters_max): the bounds are
\* rejected when some parameter has min > max
ParametersRangeFails(pmin, pmax) ==
    \E i \in DOMAIN pmin : pmin[i] > pmax[i]

ConfigurationError ==
    [type |-> "ConfigurationError", msg |-> "min > max", run |-> NoRun]

\* The parameter vectors ga.evolve may return: one value within the bounds
\* for each parameter
BestVectors(pmin, pmax) ==
    {b \in [DOMAIN pmin -> 0 .. 5] :
        \A i \in DOMAIN pmin : pmin[i] <= b[i] /\ b[i] <= pmax[i]}

\* ga.log: one record for each generation
ConvergenceLog(ngen) == [g \in 1 .. ngen |-> [gen |-> g]]

\* m.run(t) of the empirical model emp with the given parameters and
\* operating conditions: a 1-D array, or a 2-D one (one row for each time)
EmpiricalModelRun(emp, params, oc, t) ==
    IF emp = "SFOR"
    THEN [ndim |-> 1, data |-> [i \in DOMAIN t |-> params["k"] * t[i] + oc]]
    ELSE [ndim |-> 2,
          data |-> [i \in DOMAIN t |->
                      <<params["k"] * t[i] + oc, 100 - params["k"] * t[i]>>]]

---------------------------------------------------------------------------
(* PKPRunner._fit_model, PKPRunner._evolution, PKPRunner._plot_yieldfit *)

\* target_conditions of _fit_model: {run: {'t': index, 'y': res[species]}}
TargetConditions(res_dict, species) ==
    [run \in DOMAIN res_dict |->
        [t |-> res_dict[run].index, y |-> res_dict[run].cols[species]]]

\* The number in a run identifier
RunIndex(run) == CHOOSE k \in 0 .. 9 : RunName(k) = run

\* sorted(target_conditions): for single-digit run numbers the order of the
\* strings is the order of the numbers
RECURSIVE Sorted(_)
Sorted(S) ==
    IF S = {} THEN << >>
    ELSE LET least == CHOOSE a \in S : \A b \in S : RunIndex(a) <= RunIndex(b)
         IN  <<least>> \o Sorted(S \ {least})

\* dict(zip(names, best))
Zip(names, best) ==
    [k \in {names[i] : i \in DOMAIN names} |->
        best[CHOOSE i \in DOMAIN names : names[i] = k]]

\* Mutant: the last channel is taken, not the first
FirstChannelLast(y_fit) ==
    IF y_fit.ndim = 2
    THEN [ndim |-> 1,
          data |-> [i \in DOMAIN y_fit.data |->
                      y_fit.data[i][Len(y_fit.data[i])]]]
    ELSE y_fit

\* if y_fit.ndim == 2: y_fit = y_fit[:, 0]
FirstChannel(y_fit) ==
    IF y_fit.ndim = 2
    THEN [ndim |-> 1, data |-> [i \in DOMAIN y_fit.data |-> y_fit.data[i][1]]]
    ELSE y_fit

\* The body of _plot_yieldfit's loop for one run
YieldEntry(emp, params, tc, run) ==
    [t     |-> tc[run].t,
     y     |-> tc[run].y,
     y_fit |-> FirstChannel(
                 EmpiricalModelRun(emp, params, operating_conditions[run],
                                   tc[run].t))]

\* _plot_yieldfit: one entry of fit_results for each run, in sorted order
RECURSIVE PlotYieldfit(_, _, _, _, _)
PlotYieldfit(fr, emp, params, tc, runs) ==
    IF runs = << >> THEN fr
    ELSE PlotYieldfit(
             Put(fr, Head(runs), YieldEntry(emp, params, tc, Head(runs))),
             emp, params, tc, Tail(runs))

\* Mutant: the operating conditions are not those of the target's run
SetTargetFirstConditions(tc, run) ==
    [run |-> run, t |-> tc[run].t, y |-> tc[run].y,
     operating_conditions |-> operating_conditions[RunName(0)]]

\* One ga.set_target call of _evolution
SetTarget(tc, run) ==
    [run |-> run, t |-> tc[run].t, y |-> tc[run].y,
     operating_conditions |-> operating_conditions[run]]

\* The ga.set_target calls of _evolution, one for each item of
\* target_conditions.  The order of a dictionary's items is not fixed, and
\* the calls are kept as a bag.
RECURSIVE SetTargets(_, _, _)
SetTargets(tc, runs, done) ==
    IF runs = {} THEN done
    ELSE LET run == CHOOSE r \in runs : TRUE
         IN  SetTargets(tc, runs \ {run},
                        done (+) SetToBag({SetTarget(tc, run)}))

NoGA ==
    [used |-> FALSE, model |-> "", fit |-> "", method |-> "",
     target_conditions |-> EmptyDict, parameters_min |-> << >>,
     parameters_max |-> << >>, created |-> FALSE, targets |-> EmptyBag,
     registered |-> FALSE, evolved |-> FALSE]

GAUse(tc, fit_dict, fit_settings) ==
    [NoGA EXCEPT !.used = TRUE, !.model = fit_dict.model,
                 !.fit = fit_dict.fit, !.method = fit_settings.method,
                 !.target_conditions = tc,
                 !.parameters_min = fit_settings.parameters_min,
                 !.parameters_max = fit_settings.parameters_max]

\* raise NotImplementedError('Fit method {} not implemented!'.format(method))
NotImplementedError(method) ==
    [type |-> "NotImplementedError",
     msg  |-> "Fit method " \o method \o " not implemented!",
     run  |-> NoRun]

\* Mutant: the method is not checked
MethodSupportedAny(method) == TRUE

\* if method == 'evolve'
MethodSupported(method) == method = "evolve"

\* Mutant: an unsupported method yields an empty result, nothing is raised
EvolutionNoRaise(tc, fit_dict, fit_settings, best) ==
    [raised |-> FALSE, error |-> NoError,
     ga |-> [GAUse(tc, fit_dict, fit_settings) EXCEPT
               !.created = MethodSupported(fit_settings.method),
               !.registered = MethodSupported(fit_settings.method),
               !.evolved = MethodSupported(fit_settings.method)],
     fit_results |-> EmptyDict]

\* Mutant: ga.parameters_range is not called before ga.evolve
EvolutionNoRange(tc, fit_dict, fit_settings, best) ==
    IF MethodSupported(fit_settings.method)
    THEN [raised |-> FALSE, error |-> NoError,
          ga |-> [GAUse(tc, fit_dict, fit_settings) EXCEPT
                    !.created = TRUE, !.registered = TRUE, !.evolved = TRUE],
          fit_results |-> EmptyDict]
    ELSE [raised |-> TRUE,
          error |-> NotImplementedError(fit_settings.method),
          ga |-> GAUse(tc, fit_dict, fit_settings),
          fit_results |-> EmptyDict]

\* _evolution, the GA returning best
Evolution(tc, fit_dict, fit_settings, best) ==
    LET use == GAUse(tc, fit_dict, fit_settings)
        emp == fit_settings.model
    IN  IF MethodSupported(fit_settings.method)
        THEN IF ParametersRangeFails(fit_settings.parameters_min,
                                     fit_settings.parameters_max)
             THEN [raised |-> TRUE, error |-> ConfigurationError,
                   ga |-> [use EXCEPT !.created = TRUE],
                   fit_results |-> EmptyDict]
             ELSE LET params == Zip(ParametersNames(emp), best)
                      fr0 == Put(Put(EmptyDict, "best", params),
                                 "log", ConvergenceLog(fit_settings.ngen))
                  IN  [raised |-> FALSE, error |-> NoError,
                       ga |-> [use EXCEPT
                                 !.created = TRUE,
                                 !.targets =
                                     SetTargets(tc, DOMAIN tc, EmptyBag),
                                 !.registered = TRUE,
                                 !.evolved = TRUE],
                       fit_results |->
                           PlotYieldfit(fr0, emp, params, tc,
                                        Sorted(DOMAIN tc))]
        ELSE [raised |-> TRUE,
              error |-> NotImplementedError(fit_settings.method),
              ga |-> use, fit_results |-> EmptyDict]

\* if model_settings['fit']
HasFit(model) == DOMAIN settings[model].fit # {}

\* if results: run_results[model] = results
RecordResults(rr, model, res_dict) ==
    IF DOMAIN res_dict # {} THEN Put(rr, model, res_dict) ELSE rr

Init ==
    /\ settings \in Configurations
    /\ \E r \in 0 .. MaxRuns : operating_conditions = OperatingConditions(r)
    /\ pc = "model"
    /\ mi = 1
    /\ n = 0
    /\ results = EmptyDict
    /\ run_results = EmptyDict
    /\ fit_results = EmptyDict
    /\ pending = {}
    /\ model_fits = EmptyDict
    /\ calls = << >>
    /\ evo_calls = << >>
    /\ evolved = {}
    /\ ga = NoGA
    /\ failed = {}
    /\ error = NoError

\* run: the model is not active
SkipModel ==
    /\ pc = "model"
    /\ mi <= Len(models)
    /\ ~IsActive(Model)
    /\ mi' = mi + 1
    /\ UNCHANGED <<settings, operating_conditions, pc, n, results, run_results,
                   fit_results, pending, model_fits, calls, evo_calls, evolved,
                   ga, failed, error>>

\* run calls _run_model for an active model
StartRunModel ==
    /\ pc = "model"
    /\ mi <= Len(models)
    /\ IsActive(Model)
    /\ pc' = "run_model"
    /\ n' = 0
    /\ results' = EmptyDict
    /\ UNCHANGED <<settings, operating_conditions, mi, run_results,
                   fit_results, pending, model_fits, calls, evo_calls, evolved,
                   ga, failed, error>>

\* One iteration of _run_model's loop, the simulation succeeding
RunSingleOk ==
    /\ pc = "run_model"
    /\ n < operating_conditions["runs"]
    /\ calls' = Append(calls, RunCall(Model, n))
    /\ results' = StoreRun(results, n, RunSingle(Model, n))
    /\ n' = n + 1
    /\ UNCHANGED <<settings, operating_conditions, pc, mi, run_results,
                   fit_results, pending, model_fits, evo_calls, evolved, ga,
                   failed, error>>

\* One iteration of _run_model's loop, run.run() raising
RunSingleFail ==
    /\ pc = "run_model"
    /\ n < operating_conditions["runs"]
    /\ calls' = Append(calls, RunCall(Model, n))
    /\ failed' = failed \cup {<<Model, n>>}
    /\ \E type \in DetailedModelExceptions :
          LET out == OnRunFailure(DetailedModelFailure(type), n)
          IN  /\ pc' = out.pc
              /\ error' = out.error
              /\ n' = out.n
    /\ UNCHANGED <<settings, operating_conditions, mi, results, run_results,
                   fit_results, pending, model_fits, evo_calls, evolved, ga>>

\* _run_model's loop is over: run records the results and turns to the fits
FinishRunModel ==
    /\ pc = "run_model"
    /\ n >= operating_conditions["runs"]
    /\ run_results' = RecordResults(run_results, Model, results)
    /\ IF HasFit(Model)
       THEN /\ pc' = "fit_model"
            /\ pending' = DOMAIN settings[Model].fit
            /\ model_fits' = EmptyDict
            /\ mi' = mi
       ELSE /\ pc' = "model"
            /\ mi' = mi + 1
            /\ UNCHANGED <<pending, model_fits>>
    /\ UNCHANGED <<settings, operating_conditions, n, results, fit_results,
                   calls, evo_calls, evolved, ga, failed, error>>

\* One iteration of _fit_model's loop: the dictionary of fits is iterated in
\* an order the program does not choose
FitModelStep ==
    /\ pc = "fit_model"
    /\ \E fitname \in pending :
        LET fit == settings[Model].fit[fitname]
            tc == TargetConditions(results, fit.species)
            fit_dict == [model |-> Model, fit |-> fitname,
                         species |-> fit.species]
            bests == BestVectors(fit.parameters_min, fit.parameters_max)
        IN  \E best \in (IF bests = {} THEN {<< >>} ELSE bests) :
              LET out == Evolution(tc, fit_dict, fit, best)
              IN  /\ evo_calls' = Append(evo_calls, <<Model, fitname>>)
                  /\ ga' = out.ga
                  /\ evolved' = IF out.ga.evolved
                                THEN evolved \cup {<<Model, fitname>>}
                                ELSE evolved
                  /\ IF out.raised
                     THEN /\ pc' = "raised"
                          /\ error' = out.error
                          /\ UNCHANGED <<pending, model_fits>>
                     ELSE /\ model_fits' =
                                Put(model_fits, fitname,
                                    Put(out.fit_results, "species", fit.species))
                          /\ pending' = pending \ {fitname}
                          /\ UNCHANGED <<pc, error>>
    /\ UNCHANGED <<settings, operating_conditions, mi, n, results, run_results,
                   fit_results, calls, failed>>

\* _fit_model returns: run stores the fits of the model
FinishFitModel ==
    /\ pc = "fit_model"
    /\ pending = {}
    /\ fit_results' = Put(fit_results, Model, model_fits)
    /\ pc' = "model"
    /\ mi' = mi + 1
    /\ UNCHANGED <<settings, operating_conditions, n, results, run_results,
                   pending, model_fits, calls, evo_calls, evolved, ga, failed,
                   error>>

\* return run_results, fit_results
Return ==
    /\ pc = "model"
    /\ mi > Len(models)
    /\ pc' = "returned"
    /\ UNCHANGED <<settings, operating_conditions, mi, n, results, run_results,
                   fit_results, pending, model_fits, calls, evo_calls, evolved,
                   ga, failed, error>>

Next ==
    \/ SkipModel
    \/ StartRunModel
    \/ RunSingleOk
    \/ RunSingleFail
    \/ FinishRunModel
    \/ FitModelStep
    \/ FinishFitModel
    \/ Return

Spec == Init /\ [][Next]_vars

---------------------------------------------------------------------------
(* Properties *)

Runs == operating_conditions["runs"]

RunNames(r) == {RunName(j) : j \in 0 .. r - 1}

CallsOf(m) == SelectSeq(calls, LAMBDA c : c.model = m)

FailedModels == {p[1] : p \in failed}

\* The results of model m that run keeps
ResultsOf(m) == IF m \in DOMAIN run_results THEN run_results[m] ELSE EmptyDict

LastCall == calls[Len(calls)]

C2_NoPartialDataset ==
    /\ \A m \in FailedModels :
          /\ pc = "raised"
          /\ m \notin DOMAIN run_results
          /\ m \notin DOMAIN fit_results
          /\ \A i \in DOMAIN evo_calls : evo_calls[i][1] # m
    /\ pc = "returned" => failed = {}
    /\ pc = "fit_model" => DOMAIN results = RunNames(Runs)
    /\ ga.used => DOMAIN ga.target_conditions = RunNames(Runs)

C2_Witness ==
    /\ pc = "raised"
    /\ failed # {}
    /\ DOMAIN results # {}
    /\ HasFit(Model)

\* C3: the detailed model is invoked once for each run index 0 .. R-1 of an
\* active model, in increasing order, with the shared fuel analyses and
\* pressure and the operating conditions of run<n>; the results of a model
\* whose runs all succeeded have exactly the keys run0 .. run<R-1>.
C3_RunsInOrder ==
    /\ \A i \in DOMAIN calls :
          LET c == calls[i]
              before == {j \in 1 .. i - 1 : calls[j].model = c.model}
          IN  /\ c.n = Cardinality(before)
              /\ c.n < Runs
              /\ c.ultimate_analysis = ultimate_analysis
              /\ c.proximate_analysis = proximate_analysis
              /\ c.pressure = operating_conditions["pressure"]
              /\ c.operating_conditions = operating_conditions[RunName(c.n)]
              /\ c.name = InstanceName(c.model, c.n)
    /\ pc = "run_model" /\ failed = {} =>
          /\ Len(CallsOf(Model)) = n
          /\ DOMAIN results = RunNames(n)
    /\ pc = "fit_model" =>
          /\ Len(CallsOf(Model)) = Runs
          /\ DOMAIN results = RunNames(Runs)
    /\ \A m \in DOMAIN run_results :
          /\ Len(CallsOf(m)) = Runs
          /\ DOMAIN run_results[m] = RunNames(Runs)
          /\ \A j \in 0 .. Runs - 1 :
                run_results[m][RunName(j)] =
                    DetailedModelRun(m, ultimate_analysis, proximate_analysis,
                                     operating_conditions["pressure"],
                                     operating_conditions[RunName(j)])

C3_Witness ==
    /\ pc = "returned"
    /\ Runs >= 2
    /\ Cardinality(DOMAIN run_results) >= 2
    /\ Len(calls) = 2 * Runs

\* C4: a fit whose method is not "evolve" makes _evolution raise the
\* unsupported-method error (NotImplementedError) with the method in its
\* message, and no GA is created, given targets, registered or evolved.
C4_UnsupportedMethod ==
    ga.used /\ ga.method # "evolve" =>
        /\ pc = "raised"
        /\ error.type = "NotImplementedError"
        /\ error.msg = "Fit method " \o ga.method \o " not implemented!"
        /\ ~ga.created
        /\ ga.targets = EmptyBag
        /\ ~ga.registered
        /\ ~ga.evolved
        /\ <<ga.model, ga.fit>> \notin evolved

C4_Witness ==
    /\ ga.used
    /\ ga.method = "brute"
    /\ pc = "raised"

UnsupportedFits ==
    {<<m, f>> \in ModelNames \X FitNames :
        /\ settings[m].active
        /\ f \in DOMAIN settings[m].fit
        /\ settings[m].fit[f].method # "evolve"}

\* C5, as stated: when some fit of an active model has an unsupported
\* method, no ga.evolve is entered for any fit in that call of run.
C5_NoCalibrationAtAll == UnsupportedFits # {} => evolved = {}

\* C5, amended: when a fit with an unsupported method is reached, run()
\* ends there: no ga.evolve is entered for that fit or for any fit iterated
\* after it; only the fits iterated before it have been calibrated.
C5_NoCalibrationAfter ==
    \A i \in DOMAIN evo_calls :
        LET m == evo_calls[i][1]
            f == evo_calls[i][2]
        IN  settings[m].fit[f].method # "evolve" =>
                /\ i = Len(evo_calls)
                /\ pc = "raised"
                /\ evo_calls[i] \notin evolved
                /\ evolved \subseteq {evo_calls[j] : j \in 1 .. i - 1}

C5_Witness ==
    /\ pc = "raised"
    /\ error.type = "NotImplementedError"
    /\ evolved # {}

\* The configuration errors of the error taxonomy: malformed bounds, and
\* the unsupported fitting method
ConfigurationErrorTypes == {"ConfigurationError", "NotImplementedError"}

C7_TargetsNonEmpty == ga.used => DOMAIN ga.target_conditions # {}

\* C8: the set_target calls of a fit are in one-to-one correspondence with
\* the runs of the model: one call for each run, with the time index of the
\* run, the fitted species' channel of the run, of the same length, and the
\* operating conditions configured for that run; no other call.
C8_TargetsMatchRuns ==
    ga.evolved =>
        LET res == ResultsOf(ga.model)
            species == settings[ga.model].fit[ga.fit].species
            calls_of(r) == {c \in BagToSet(ga.targets) : c.run = r}
        IN  /\ BagCardinality(ga.targets) = Cardinality(DOMAIN res)
            /\ \A c \in BagToSet(ga.targets) : c.run \in DOMAIN res
            /\ \A r \in DOMAIN res :
                  /\ Cardinality(calls_of(r)) = 1
                  /\ \A c \in calls_of(r) :
                        /\ CopiesIn(c, ga.targets) = 1
                        /\ c.t = res[r].index
                        /\ c.y = res[r].cols[species]
                        /\ Len(c.t) = Len(c.y)
                        /\ c.operating_conditions = operating_conditions[r]

C8_Witness ==
    /\ ga.evolved
    /\ BagCardinality(ga.targets) >= 2
    /\ ga.fit = "fit1"

\* The result of fit f of model m, once _evolution has returned it
FitResultOk(m, f, fr) ==
    LET fit == settings[m].fit[f]
        tc == TargetConditions(ResultsOf(m), fit.species)
    IN  /\ DOMAIN fr = {"best", "log", "species"} \cup DOMAIN tc
        /\ DOMAIN fr["best"] = {"k"}
        /\ fit.parameters_min[1] <= fr["best"]["k"]
        /\ fr["best"]["k"] <= fit.parameters_max[1]
        /\ fr["log"] = ConvergenceLog(fit.ngen)
        /\ fr["species"] = fit.species
        /\ \A r \in DOMAIN tc :
              LET raw == EmpiricalModelRun(fit.model, fr["best"],
                                           operating_conditions[r], tc[r].t)
              IN  /\ DOMAIN fr[r] = {"t", "y", "y_fit"}
                  /\ fr[r].t = tc[r].t
                  /\ fr[r].y = tc[r].y
                  /\ fr[r].y_fit.ndim = 1
                  /\ DOMAIN fr[r].y_fit.data = DOMAIN tc[r].t
                  /\ \A i \in DOMAIN tc[r].t :
                        fr[r].y_fit.data[i] =
                            IF raw.ndim = 2 THEN raw.data[i][1]
                            ELSE raw.data[i]

\* C9: the result of a successful _evolution holds, for every run of the
\* target dataset and no other, the triple {t, y, y_fit} with the run's
\* target arrays and the first channel of the best model's prediction under
\* the run's operating conditions, next to the 'best', 'log' and 'species'
\* entries.
C9_FitResultTriples ==
    /\ pc = "fit_model" =>
          \A f \in DOMAIN model_fits : FitResultOk(Model, f, model_fits[f])
    /\ \A m \in DOMAIN fit_results :
          \A f \in DOMAIN fit_results[m] :
              FitResultOk(m, f, fit_results[m][f])

C9_Witness ==
    /\ pc = "returned"
    /\ Runs >= 2
    /\ \E m \in DOMAIN fit_results :
          /\ "fit1" \in DOMAIN fit_results[m]
          /\ "run1" \in DOMAIN fit_results[m]["fit1"]

\* C10: only active models are simulated and fitted, the fits of a model
\* start after all its runs have completed, run_results holds active models
\* only and fit_results exactly the active models with fit settings.
C10_ActiveModelsOnly ==
    /\ \A i \in DOMAIN calls : settings[calls[i].model].active
    /\ \A i \in DOMAIN evo_calls :
          LET m == evo_calls[i][1]
          IN  /\ settings[m].active
              /\ Len(CallsOf(m)) = Runs
              /\ m \notin FailedModels
    /\ \A m \in DOMAIN run_results : settings[m].active
    /\ \A m \in DOMAIN fit_results : settings[m].active /\ HasFit(m)
    /\ pc = "returned" =>
          DOMAIN fit_results =
              {m \in ModelNames : settings[m].active /\ HasFit(m)}

C10_Witness ==
    /\ pc = "returned"
    /\ \E m \in ModelNames : ~settings[m].active /\ HasFit(m)
    /\ \E m \in ModelNames : settings[m].active /\ HasFit(m)
    /\ Runs >= 1

====
